---- MODULE Spec2Model ----
(***************************************************************************)
(* Model of update.py: the metadata reconciler update_metadata_file and    *)
(* the listing page updater update_html.                                   *)
(*                                                                         *)
(* Strings that the code takes apart (file names, extensions) are          *)
(* sequences of one-character strings, so that str.split is computed.      *)
(* JSON values are tagged pairs <<tag, payload>>; a record of the store is *)
(* a function from its keys to values; the metadata file on disk is the    *)
(* list of its objects, each the list of its <<key, value>> members in the *)
(* order they stand in the file.                                           *)
(***************************************************************************)
EXTENDS Integers, Sequences, FiniteSets, TLC

VARIABLES store, dir, today, ret, out, streak, html, listed

vars == <<store, dir, today, ret, out, streak, html, listed>>

(* ----------------------------- bounds ---------------------------------- *)

MaxFiles == 2
MaxDay == 2
MaxInitRecords == 2

(* ------------------------- names and values ---------------------------- *)

extsep == "."

Names ==
  { <<"a", ".", "w">>,
    <<"a", ".", "b">>,
    <<"a", ".", "w", ".", "b">> }

audio_ext == { <<"w">> }

StrV(s) == <<"str", s>>
IntV(n) == <<"int", n>>
FloatV(n) == <<"float", n>>
DateV(d) == <<"date", d>>

EMPTY == StrV(<<>>)
ZERO == IntV(0)

\* Python truth value of a JSON value: '' and 0 and 0.0 are falsy.
Truthy(v) ==
  CASE v[1] = "str" -> v[2] # <<>>
    [] v[1] = "int" -> v[2] # 0
    [] v[1] = "float" -> v[2] # 0
    [] OTHER -> TRUE

\* A file of the asset directory: its size in bytes and whether it decodes
\* as audio.  A zero-byte file does not.
Contents ==
  { [size |-> 0, audio |-> FALSE],
    [size |-> 1, audio |-> TRUE] }

(* --------------------------- str.split --------------------------------- *)

FirstSep(s) ==
  IF \E i \in 1..Len(s) : s[i] = extsep
    THEN CHOOSE i \in 1..Len(s) : s[i] = extsep /\ \A j \in 1..(i - 1) : s[j] # extsep
    ELSE 0

RECURSIVE Split(_)
Split(s) ==
  IF FirstSep(s) = 0
    THEN <<s>>
    ELSE <<SubSeq(s, 1, FirstSep(s) - 1)>> \o Split(SubSeq(s, FirstSep(s) + 1, Len(s)))

(* ------------------------ field functions ------------------------------ *)

FAIL == <<"raise">>

\* os.path.join(assets_folder, file_name) names a file of the directory, or
\* the directory itself when file_name is ''; the size of a directory is a
\* positive number of the file system's choosing.
_getsize(d, name) ==
  IF name = <<>> THEN IntV(1 + Cardinality(DOMAIN d))
  ELSE IF name \in DOMAIN d THEN IntV(d[name].size)
  ELSE FAIL

_audio_length_sec(d, name) ==
  IF name \in DOMAIN d /\ d[name].audio THEN FloatV(d[name].size) ELSE FAIL

_cur_date(day) == DateV(day)

audio_metadata_reqs ==
  [ file_description |-> "None",
    file_length_seconds |-> "_audio_length_sec",
    date_added |-> "_cur_date",
    file_size_bytes |-> "getsize" ]

callable(func) == func # "None"

\* func(path); calling None raises TypeError, reported here as FAIL.
Call(func, d, name, day) ==
  CASE func = "_audio_length_sec" -> _audio_length_sec(d, name)
    [] func = "_cur_date" -> _cur_date(day)
    [] func = "getsize" -> _getsize(d, name)
    [] OTHER -> FAIL

(* ------------------------------ JSON ----------------------------------- *)

\* The keys in the order sort_keys=True writes them.
SortedKeys == <<"date_added", "file_description", "file_length_seconds",
                "file_name", "file_size_bytes">>

Keys == { SortedKeys[i] : i \in 1..Len(SortedKeys) }

RECURSIVE DumpFrom(_, _)
DumpFrom(rec, i) ==
  IF i > Len(SortedKeys) THEN <<>>
  ELSE IF SortedKeys[i] \in DOMAIN rec
    THEN <<<<SortedKeys[i], rec[SortedKeys[i]]>>>> \o DumpFrom(rec, i + 1)
    ELSE DumpFrom(rec, i + 1)

\* json.dump(..., sort_keys=True) of one record: its members by sorted key.
JsonDumpObj(rec) == DumpFrom(rec, 1)

\* json.load of one object: a later member overrides an earlier one.
JsonLoadObj(obj) ==
  [ k \in { obj[i][1] : i \in 1..Len(obj) } |->
      obj[CHOOSE i \in 1..Len(obj) :
            obj[i][1] = k /\ \A j \in (i + 1)..Len(obj) : obj[j][1] # k][2] ]

JsonDump(recs) == [ i \in 1..Len(recs) |-> JsonDumpObj(recs[i]) ]
JsonLoad(body) == [ i \in 1..Len(body) |-> JsonLoadObj(body[i]) ]

(* ----------------------- update_metadata_file -------------------------- *)

Raise(exc) == [exc |-> exc, recs |-> <<>>, out |-> {}]

\* Lines 108-114: only ValueError (unparsable JSON) is caught.
Load(st) ==
  CASE st.kind = "absent" -> [exc |-> "IOError", md |-> <<>>, out |-> {}]
    [] st.kind = "nokey" -> [exc |-> "KeyError", md |-> <<>>, out |-> {}]
    [] st.kind = "unparsable" ->
         [exc |-> "none", md |-> <<>>, out |-> {<<"could_not_open">>}]
    [] OTHER -> [exc |-> "none", md |-> JsonLoad(st.body), out |-> {}]

\* Line 117: file_.split(os.extsep)[1] in allowed_exts.
HasExt(f, allowed_exts) == Split(f)[2] \in allowed_exts

Listable(listing) == \A i \in 1..Len(listing) : Len(Split(listing[i])) >= 2

AssetFiles(listing, allowed_exts) ==
  SelectSeq(listing, LAMBDA f : HasExt(f, allowed_exts))

\* Line 118.
HasFileNames(md) == \A i \in 1..Len(md) : "file_name" \in DOMAIN md[i]

MetadataFiles(md) == [ i \in 1..Len(md) |-> md[i]["file_name"] ]

\* Line 119 without its test: every listed file is taken for new.
NewFilesAll(asset_files, metadata_files) == asset_files

\* Line 119.
NewFiles(asset_files, metadata_files) ==
  SelectSeq(asset_files,
            LAMBDA f : \A i \in 1..Len(metadata_files) : metadata_files[i] # StrV(f))

\* Lines 127-131: the functions run outside any try.
CallableFields(reqs) == { k \in DOMAIN reqs : callable(reqs[k]) }

EntryFails(f, d, day, reqs) ==
  \E k \in CallableFields(reqs) : Call(reqs[k], d, f, day) = FAIL

NewEntry(f, d, day, reqs) ==
  [ k \in {"file_name"} \cup CallableFields(reqs) |->
      IF k = "file_name" THEN StrV(f) ELSE Call(reqs[k], d, f, day) ]

\* Lines 143-144 with every required field recomputed on every run.
DiffAlways(data, reqs) ==
  (DOMAIN reqs) \cup { k \in DOMAIN data : ~Truthy(data[k]) }

\* Line 143 without line 144: an empty value is not looked at.
DiffMissingOnly(data, reqs) == (DOMAIN reqs) \ (DOMAIN data)

\* Lines 143-144.
Diff(data, reqs) ==
  ((DOMAIN reqs) \ (DOMAIN data)) \cup { k \in DOMAIN data : ~Truthy(data[k]) }

\* Line 151: os.path.join raises TypeError on a file_name that is no string.
PathFails(data, reqs) ==
  /\ "file_name" \in DOMAIN data
  /\ Diff(data, reqs) # {}
  /\ data["file_name"][1] # "str"

\* Lines 152-157: a field outside metadata_reqs_dict raises KeyError, a None
\* entry raises TypeError; the bare except turns every failure into ''.
Recompute(field, data, d, day, reqs) ==
  IF field \in DOMAIN reqs
    THEN Call(reqs[field], d, data["file_name"][2], day)
    ELSE FAIL

Repaired(field, data, d, day, reqs) ==
  IF Recompute(field, data, d, day, reqs) = FAIL
    THEN EMPTY
    ELSE Recompute(field, data, d, day, reqs)

\* Lines 136-157 with a field that cannot be recomputed skipped, not set.
CheckEntrySkip(data, d, day, reqs) ==
  IF "file_name" \notin DOMAIN data THEN data
  ELSE LET fixed == { k \in Diff(data, reqs) : Recompute(k, data, d, day, reqs) # FAIL }
       IN [ k \in (DOMAIN data) \cup fixed |->
              IF k \in fixed THEN Recompute(k, data, d, day, reqs) ELSE data[k] ]

\* Lines 136-157 for one record.
CheckEntry(data, d, day, reqs) ==
  IF "file_name" \notin DOMAIN data THEN data
  ELSE LET diff == Diff(data, reqs)
       IN [ k \in (DOMAIN data) \cup diff |->
              IF k \in diff THEN Repaired(k, data, d, day, reqs) ELSE data[k] ]

\* The lines printed for record i (lines 139, 147, 154, 157).
EntryOut(i, data, d, day, reqs) ==
  IF "file_name" \notin DOMAIN data THEN { <<"missing_file_name", i>> }
  ELSE LET diff == Diff(data, reqs)
       IN IF diff = {} THEN {}
          ELSE { <<"missing_fields", i>> }
               \cup { IF Recompute(k, data, d, day, reqs) = FAIL
                        THEN <<"cant", i, k>> ELSE <<"fixed", i, k>> : k \in diff }

Appended(md, new_files, d, day, reqs) ==
  md \o [ i \in 1..Len(new_files) |-> NewEntry(new_files[i], d, day, reqs) ]

\* Lines 116-157 on the loaded list md; listing is the result of os.listdir.
Reconcile(md, listing, d, day, allowed_exts, reqs) ==
  IF ~Listable(listing) THEN Raise("IndexError")
  ELSE IF ~HasFileNames(md) THEN Raise("KeyError")
  ELSE LET new_files == NewFiles(AssetFiles(listing, allowed_exts), MetadataFiles(md))
       IN IF \E i \in 1..Len(new_files) : EntryFails(new_files[i], d, day, reqs)
            THEN Raise("Exception")
          ELSE LET all == Appended(md, new_files, d, day, reqs)
               IN IF \E i \in 1..Len(all) : PathFails(all[i], reqs)
                    THEN Raise("TypeError")
                    ELSE [ exc |-> "none",
                           recs |-> [ i \in 1..Len(all) |-> CheckEntry(all[i], d, day, reqs) ],
                           out |-> UNION { EntryOut(i, all[i], d, day, reqs) : i \in 1..Len(all) } ]

\* The whole call: what it raises or returns, and what it prints when it
\* returns.
update_metadata_file(st, listing, d, day, allowed_exts, reqs) ==
  LET ld == Load(st)
  IN IF ld.exc # "none" THEN Raise(ld.exc)
     ELSE LET r == Reconcile(ld.md, listing, d, day, allowed_exts, reqs)
          IN [ exc |-> r.exc, recs |-> r.recs,
               out |-> IF r.exc = "none" THEN ld.out \cup r.out ELSE {} ]

\* Lines 160-162: the file as written.
Written(recs, day) == [kind |-> "ok", body |-> JsonDump(recs), last_updated |-> day]

(* ---------------------------- update_html ----------------------------- *)

\* The ids of line 176.  The page is held as the parse of index.html: for
\* each id the children of the <ul> inside the <li> of that id.  A child is
\* a whitespace string, another string, or an <li> holding one <a>.
Sections == {"audio-list", "benchmark-list", "model-list"}

WS == <<"ws">>
TEXT == <<"text">>
Li(text, href) == <<"li", text, href>>

IsTag(node) == node[1] = "li"

\* Line 183 left out: nothing is removed.
ExtractedNone(ul) == ul

\* Line 183: findChildren() yields the tags, not the strings, and each is
\* extracted.
Extracted(ul) == SelectSeq(ul, LAMBDA node : ~IsTag(node))

\* Lines 186-191: one <li><a href=loc>fn</a></li> per entry, in the
\* mapping's order.
NewTags(file_list) ==
  [ i \in 1..Len(file_list) |-> Li(file_list[i][1], file_list[i][2]) ]

Populated(ul, file_list) == Extracted(ul) \o NewTags(file_list)

NL == "\n"

RECURSIVE Strip(_)
Strip(t) ==
  IF t = <<>> THEN t
  ELSE IF Head(t) = NL THEN Strip(Tail(t))
  ELSE IF t[Len(t)] = NL THEN Strip(SubSeq(t, 1, Len(t) - 1))
  ELSE t

\* Line 194 and the parse of line 174 on the next call: prettify() drops
\* the whitespace strings and puts every tag and every string on a line of
\* its own, so that each child stands between whitespace strings and the
\* text of a link between line breaks.
PrettyNode(node) ==
  IF IsTag(node) THEN Li(<<NL>> \o Strip(node[2]) \o <<NL>>, node[3]) ELSE node

Prettified(ul) ==
  LET kept == SelectSeq(ul, LAMBDA node : node # WS)
  IN [ i \in 1..(2 * Len(kept) + 1) |->
         IF i % 2 = 1 THEN WS ELSE PrettyNode(kept[i \div 2]) ]

\* The whole call on the parsed page; l maps each id to its file list.
update_html(page, l) ==
  [ id \in Sections |-> Prettified(Populated(page[id], l[id])) ]

\* Lines 50-56: the location main joins for a file name of a category.
Loc(id, fn) == <<"/", id, "/">> \o fn

(* ------------------------------ state ---------------------------------- *)

NoHtml == [ id \in Sections |-> <<>> ]

\* os.listdir returns the entries in an order of the file system's choosing.
Listings(d) ==
  { l \in [1..Cardinality(DOMAIN d) -> DOMAIN d] :
      \A i, j \in 1..Cardinality(DOMAIN d) : i # j => l[i] # l[j] }

\* A record as an earlier run and a hand-written description leave it.
Base(n) ==
  [ file_name |-> StrV(n), file_description |-> StrV(<<"t">>),
    file_length_seconds |-> FloatV(1), date_added |-> DateV(0),
    file_size_bytes |-> IntV(1) ]

Without(rec, k) == [ j \in (DOMAIN rec) \ {k} |-> rec[j] ]

\* A record whose literal field is 0 and whose computed fields are ''.
Falsy(n) ==
  [ k \in Keys |->
      IF k = "file_name" THEN StrV(n)
      ELSE IF callable(audio_metadata_reqs[k]) THEN EMPTY ELSE ZERO ]

InitNames == { <<"a", ".", "w">> }

\* What a metadata file can hold for one file: a complete record, one with
\* no file_name, one with nothing but its file_name, one whose fields are
\* there and falsy.
InitRecords ==
  UNION { { Base(n), Without(Base(n), "file_name"), [ k \in {"file_name"} |-> StrV(n) ],
            Falsy(n) }
          : n \in InitNames }

Reverse(s) == [ i \in 1..Len(s) |-> s[Len(s) + 1 - i] ]

\* Hand-written objects list their members in an order of their own.
InitObjects == { Reverse(JsonDumpObj(r)) : r \in InitRecords }

InitBodies == UNION { [1..n -> InitObjects] : n \in 0..MaxInitRecords }

EmptyStore == [kind |-> "ok", body |-> <<>>, last_updated |-> 0]

\* A record whose file_name is falsy: '' or 0.
Unnamed(n, v) == [ Base(n) EXCEPT !["file_name"] = v ]

UnnamedBodies ==
  { << Reverse(JsonDumpObj(Unnamed(n, v))) >> : n \in InitNames, v \in {EMPTY, ZERO} }

InitStores ==
  { [kind |-> k, body |-> <<>>, last_updated |-> 0] : k \in {"absent", "unparsable", "nokey"} }
  \cup { [kind |-> "ok", body |-> b, last_updated |-> 0] : b \in InitBodies \cup UnnamedBodies }

Init ==
  /\ store \in InitStores
  /\ dir = <<>>
  /\ today = 1
  /\ ret = "none"
  /\ out = {}
  /\ streak = 0
  /\ html = NoHtml
  /\ listed = <<>>

(* ----------------------------- actions --------------------------------- *)

\* A file appears in the asset directory.
AddFile ==
  /\ Cardinality(DOMAIN dir) < MaxFiles
  /\ \E f \in Names \ DOMAIN dir, c \in Contents :
       dir' = [ g \in (DOMAIN dir) \cup {f} |-> IF g = f THEN c ELSE dir[g] ]
  /\ ret' = "none" /\ out' = {} /\ streak' = 0
  /\ UNCHANGED <<store, today, html, listed>>

\* A file is removed from the asset directory.
RemoveFile ==
  /\ \E f \in DOMAIN dir : dir' = [ g \in (DOMAIN dir) \ {f} |-> dir[g] ]
  /\ ret' = "none" /\ out' = {} /\ streak' = 0
  /\ UNCHANGED <<store, today, html, listed>>

\* Midnight passes.
Tick ==
  /\ today < MaxDay
  /\ today' = today + 1
  /\ UNCHANGED <<store, dir, ret, out, streak, html, listed>>

\* One call of update_metadata_file on the audio category (lines 16-25):
\* the file is written only when the call gets to line 161.  streak counts,
\* up to two, the calls that have returned since the directory last changed.
Run ==
  \E listing \in Listings(dir) :
    \E r \in {update_metadata_file(store, listing, dir, today, audio_ext, audio_metadata_reqs)} :
       /\ store' = IF r.exc = "none" THEN Written(r.recs, today) ELSE store
       /\ ret' = IF r.exc = "none" THEN "returned" ELSE r.exc
       /\ out' = r.out
       /\ streak' = IF r.exc # "none" THEN 0 ELSE IF streak = 0 THEN 1 ELSE 2
       /\ UNCHANGED <<dir, today, html, listed>>

Next == AddFile \/ RemoveFile \/ Tick \/ Run

Spec == Init /\ [][Next]_vars

(* ------------------- the directory listing on any name ----------------- *)

\* File names with no dot, one dot, several dots, a leading and a trailing
\* dot.
ListNames ==
  Names \cup { <<"a">>, <<"a", ".", "b", ".", "w">>, <<".", "w">>, <<"a", ".">> }

AudioFiles == { c \in Contents : c.audio }

InitList ==
  /\ store = EmptyStore
  /\ dir = <<>>
  /\ today = 1
  /\ ret = "none"
  /\ out = {}
  /\ streak = 0
  /\ html = NoHtml
  /\ listed = <<>>

\* A file of any name appears in the asset directory.
AddAnyFile ==
  /\ Cardinality(DOMAIN dir) < MaxFiles
  /\ \E f \in ListNames \ DOMAIN dir, c \in AudioFiles :
       dir' = [ g \in (DOMAIN dir) \cup {f} |-> IF g = f THEN c ELSE dir[g] ]
  /\ ret' = "none" /\ out' = {} /\ streak' = 0
  /\ UNCHANGED <<store, today, html, listed>>

NextList == AddAnyFile \/ RemoveFile \/ Run

SpecList == InitList /\ [][NextList]_vars

(* --------------------------- the listing page -------------------------- *)

PageNames == { <<"x">>, <<"y">> }

\* The name-to-location mappings main can pass for a category: every
\* ordered choice of distinct file names.
FileLists(id) ==
  { <<>> } \cup { << <<fn, Loc(id, fn)>> >> : fn \in PageNames }
  \cup { << <<q[1], Loc(id, q[1])>>, <<q[2], Loc(id, q[2])>> >> :
           q \in { r \in PageNames \X PageNames : r[1] # r[2] } }

\* What a list of the page can hold before the call.
OldLists(id) ==
  { <<>>,
    << Li(<<"o">>, Loc(id, <<"o">>)) >>,
    << WS, Li(<<NL, "x", NL>>, Loc(id, <<"x">>)), WS >>,
    << TEXT, Li(<<"x">>, <<"/">>), Li(<<"y">>, Loc(id, <<"y">>)) >> }

InitHtml ==
  /\ store = EmptyStore
  /\ dir = <<>>
  /\ today = 1
  /\ ret = "none"
  /\ out = {}
  /\ streak = 0
  /\ html \in { page \in [Sections -> UNION { OldLists(id) : id \in Sections }] :
                  \A id \in Sections : page[id] \in OldLists(id) }
  /\ listed = <<>>

\* One call of update_html; listed keeps the arguments of the call.
UpdateHtml ==
  \E l \in { m \in [Sections -> UNION { FileLists(id) : id \in Sections }] :
               \A id \in Sections : m[id] \in FileLists(id) } :
    /\ html' = update_html(html, l)
    /\ listed' = l
    /\ UNCHANGED <<store, dir, today, ret, out, streak>>

NextHtml == UpdateHtml

SpecHtml == InitHtml /\ [][NextHtml]_vars

(* ------------------------ what the claims speak of --------------------- *)

\* The records of a metadata file.
Recs(st) == JsonLoad(st.body)

NamedAs(rec, f) == "file_name" \in DOMAIN rec /\ rec["file_name"] = StrV(f)

\* How many records of the file carry the file name f.
Count(st, f) == Cardinality({ i \in 1..Len(Recs(st)) : NamedAs(Recs(st)[i], f) })

\* The extension of a name is the whole text after its first '.', and it
\* is a member of the allowed extensions.
ExtAllowed(f) ==
  \E i \in 1..Len(f) :
    /\ f[i] = "."
    /\ \A j \in 1..(i - 1) : f[j] # "."
    /\ SubSeq(f, i + 1, Len(f)) \in audio_ext

\* The record's file is in the asset directory.
OnDisk(rec) ==
  /\ "file_name" \in DOMAIN rec
  /\ rec["file_name"][1] = "str"
  /\ rec["file_name"][2] \in DOMAIN dir

LiteralFields == (DOMAIN audio_metadata_reqs) \ CallableFields(audio_metadata_reqs)

\* The items of a list of the page: text and target of each link, the text
\* without the line breaks around it.
Items(ul) ==
  LET tags == SelectSeq(ul, IsTag)
  IN [ i \in 1..Len(tags) |-> <<Strip(tags[i][2]), tags[i][3]>> ]

\* A step of update_metadata_file: under Spec and SpecList the one step that
\* leaves the directory and the date as they are.
Called == dir' = dir /\ today' = today

(* ------------------------------- claims -------------------------------- *)

\* C1, as stated: after update_metadata_file has returned, every file of the
\* directory whose extension is allowed has exactly one record with its
\* file_name, whatever the metadata file held.
C1_ExactlyOneRecord ==
  ret = "returned" =>
    \A f \in DOMAIN dir : ExtAllowed(f) => Count(store, f) = 1

\* C1, amended: a call that returns leaves every file with an allowed
\* extension with at least one record and adds no duplicate: the file has
\* one record if it had none, and as many as it had otherwise.
C1_NoOmissionNoNewDuplicate ==
  [][(ret' = "returned" /\ Called) =>
       \A f \in DOMAIN dir :
         ExtAllowed(f) =>
           Count(store', f) = IF Count(store, f) = 0 THEN 1 ELSE Count(store, f)]_vars

C1_Witness ==
  /\ ret = "returned"
  /\ \E f \in DOMAIN dir : ExtAllowed(f) /\ Count(store, f) = 1
  /\ \E i \in 1..Len(Recs(store)) : ~OnDisk(Recs(store)[i])

\* C2: a call that follows a call that returned, on an unchanged directory,
\* returns too and writes the same records: the same sequence, the same
\* keys, the same values (last_updated apart).
C2_SecondRunSameRecords ==
  [][(streak >= 1 /\ Called) => (ret' = "returned" /\ store'.body = store.body)]_vars

C2_Witness ==
  /\ streak = 2
  /\ today > store.last_updated
  /\ \E i \in 1..Len(Recs(store)) :
       /\ ~OnDisk(Recs(store)[i])
       /\ <<"cant", i, "file_size_bytes">> \in out

\* C3: update_metadata_file never terminates with an exception, whatever
\* the metadata file, the directory and the field functions do.
C3_NeverRaises == ret \in {"none", "returned"}

\* C4: when the metadata file is absent or unparsable the call returns, and
\* the file it writes holds exactly one record for each file of the
\* directory with an allowed extension and no other record.
C4_AbsentOrUnparsableStartsEmpty ==
  [][(store.kind \in {"absent", "unparsable"} /\ Run) =>
       /\ ret' = "returned"
       /\ \A f \in DOMAIN dir : ExtAllowed(f) => Count(store', f) = 1
       /\ \A i \in 1..Len(Recs(store')) :
            \E f \in DOMAIN dir : NamedAs(Recs(store')[i], f)]_vars

\* C5: a record with no file_name does not stop the call, and it is in the
\* written file at its place with the keys and values it had.
C5_NamelessRecordUntouched ==
  [][(store.kind = "ok" /\ Run) =>
       \A i \in 1..Len(Recs(store)) :
         "file_name" \notin DOMAIN Recs(store)[i] =>
           /\ ret' = "returned"
           /\ Len(Recs(store')) >= i
           /\ Recs(store')[i] = Recs(store)[i]]_vars

\* C6, as stated: when the call returns, a recomputable field that held ''
\* in a record whose file is in the directory holds a non-empty value, the
\* result of the field's function on the file.
C6_EmptyFieldRepairedNonEmpty ==
  [][(ret' = "returned" /\ Called) =>
       \A i \in 1..Len(Recs(store)) :
         \A k \in CallableFields(audio_metadata_reqs) :
           (OnDisk(Recs(store)[i]) /\ k \in DOMAIN Recs(store)[i] /\ Recs(store)[i][k] = EMPTY) =>
             /\ Recs(store')[i][k] # EMPTY
             /\ Recs(store')[i][k] =
                  Call(audio_metadata_reqs[k], dir, Recs(store)[i]["file_name"][2], today)]_vars

\* C6, amended: when the call returns, such a field holds the result of the
\* field's function on the file if the function succeeds on it, and still
\* '' if the function raises on it.
C6_EmptyFieldRepairedOrLeftEmpty ==
  [][(ret' = "returned" /\ Called) =>
       \A i \in 1..Len(Recs(store)) :
         \A k \in CallableFields(audio_metadata_reqs) :
           (OnDisk(Recs(store)[i]) /\ k \in DOMAIN Recs(store)[i] /\ Recs(store)[i][k] = EMPTY) =>
             LET v == Call(audio_metadata_reqs[k], dir, Recs(store)[i]["file_name"][2], today)
             IN Recs(store')[i][k] = IF v = FAIL THEN EMPTY ELSE v]_vars

C6_Witness ==
  /\ ret = "returned"
  /\ \E i \in 1..Len(Recs(store)) :
       /\ OnDisk(Recs(store)[i])
       /\ <<"fixed", i, "file_length_seconds">> \in out
       /\ <<"cant", i, "file_description">> \in out
       /\ Recs(store)[i]["file_length_seconds"] =
            _audio_length_sec(dir, Recs(store)[i]["file_name"][2])

\* C7: after update_html each of the three lists holds exactly one item per
\* entry of its mapping, in the mapping's order, the link's text the name
\* and its target the location, and no item it held before; a further call
\* with the same mappings leaves the page as it is.
C7_ListsReplaced ==
  /\ [](listed # <<>> =>
          \A id \in Sections :
            Items(html[id]) = [ i \in 1..Len(listed[id]) |->
                                  <<listed[id][i][1], listed[id][i][2]>> ])
  /\ [][(listed # <<>> /\ listed' = listed) => html' = html]_vars

C7_Witness ==
  /\ listed # <<>>
  /\ \E id \in Sections : Len(listed[id]) = 2 /\ TEXT \in { html[id][i] : i \in 1..Len(html[id]) }
  /\ \E id \in Sections : listed[id] = <<>> /\ html[id] = <<WS>>

\* C8: every call on a metadata file that holds the category's list leaves a record for each file of the directory with an
\* allowed extension, and a file name that has a record before a call has
\* one after it, whether or not the file is still there.
C8_CreatedThenKept ==
  [][(store.kind = "ok" /\ Run) =>
       /\ \A f \in DOMAIN dir : ExtAllowed(f) => Count(store', f) >= 1
       /\ \A f \in Names : Count(store, f) >= 1 => Count(store', f) >= 1]_vars

\* C9, as stated: when the call returns, a literal field that a record
\* lacked is still not a key of the record, a literal field that a record
\* had keeps its value, and a record created by the call has no literal
\* field.
C9_LiteralNotFabricated ==
  [][(ret' = "returned" /\ Called) =>
       \A i \in 1..Len(Recs(store')) :
         \A k \in LiteralFields :
           IF i <= Len(Recs(store)) /\ k \in DOMAIN Recs(store)[i]
             THEN k \in DOMAIN Recs(store')[i] /\ Recs(store')[i][k] = Recs(store)[i][k]
             ELSE k \notin DOMAIN Recs(store')[i]]_vars

\* C9, amended: when the call returns, a literal field that a record had
\* with a truthy value keeps its value, and a literal field that a record
\* lacked or had with a falsy value is a key of the record with the value
\* ''; so is every literal field of a record created by the call.
C9_LiteralEmptyUnlessTruthy ==
  [][(ret' = "returned" /\ Called) =>
       \A i \in 1..Len(Recs(store')) :
         \A k \in LiteralFields :
           /\ k \in DOMAIN Recs(store')[i]
           /\ Recs(store')[i][k] =
                IF /\ i <= Len(Recs(store))
                   /\ k \in DOMAIN Recs(store)[i]
                   /\ Truthy(Recs(store)[i][k])
                  THEN Recs(store)[i][k]
                  ELSE EMPTY]_vars

C9_Witness ==
  /\ ret = "returned"
  /\ \E i, j \in 1..Len(Recs(store)) :
       /\ <<"cant", i, "file_description">> \in out
       /\ Recs(store)[i]["file_description"] = EMPTY
       /\ <<"missing_fields", j>> \notin out
       /\ Truthy(Recs(store)[j]["file_description"])

\* C10: the call keeps a directory entry exactly when the text after the
\* first '.' of its name is an allowed extension, and a name with no '.' is
\* not kept: no call raises IndexError, and when a call returns, the files
\* of the directory that have a record are those with an allowed extension
\* and those that had a record before.
C10_KeptExactlyByExtension ==
  [][Run =>
       /\ ret' # "IndexError"
       /\ ret' = "returned" =>
            \A f \in DOMAIN dir :
              (Count(store', f) >= 1) <=> (ExtAllowed(f) \/ Count(store, f) >= 1)]_vars

====
